---- MODULE Spec2Model ----
(***************************************************************************)
(* Model of app/processing.py of pixelate-all: the frame transform         *)
(* pixelate_image and the pipelines that drive it.                         *)
(*                                                                         *)
(* A pixel buffer is a record [shape, data]: shape is <<h, w, c>> as in    *)
(* numpy, data maps <<row, column>> (0-based) to a tuple of c channel      *)
(* values. A single plane (alpha) maps <<row, column>> to a value.         *)
(***************************************************************************)
EXTENDS Integers, Sequences, FiniteSets, TLC

(* ---------------------------- bounds ----------------------------------- *)
MaxH == 2
MaxW == 5
MaxPixelSize == 2
MaxUpscale == 2
MaxColors == 3
MaxLevel == 2
MaxGifFrames == 3
MaxVideoFrames == 2
MaxVideoDim == 2
MaxPipeFrames == 4       \* frames the producer has to write
MaxLogRate == 1          \* log lines the encoder emits for a frame it encodes
StdinCapacity == 2       \* frames the stdin pipe holds before a write blocks
StderrCapacity == 2      \* log lines the stderr pipe holds before a write blocks
MaxRequests == 2         \* HTTP requests in flight at once

(* n_colors is an int with no lower check in the code: -1 and 0 are inputs *)
MinColors == 0 - 1

(* cv2.TERM_CRITERIA: at most 100 iterations, epsilon 0.2 = 1 / EpsInv     *)
MaxIter == 100
EpsInv == 5

VARIABLES
    pc,              \* position inside pixelate_image
    image,           \* the argument buffer
    pixel_size, n_colors, upscale_factor,
    small_bgr,       \* the downsampled colour buffer (line 23)
    centers, labels, \* cv2.kmeans' centres and labels
    iter,            \* cv2.kmeans' iteration counter
    quantized_small_bgr,
    result           \* the returned buffer

VARIABLES
    gpc,             \* position inside pixelate_gif_file
    gif,             \* the opened source: its frames, each with its declared duration
    gif_pixel_size, gif_upscale,
    gi,              \* the loop index i
    frames, durations,
    gif_failed,      \* the step that raised, "" while none has
    outfile          \* what is at output_path

gifvars == <<gpc, gif, gif_pixel_size, gif_upscale, gi, frames, durations,
             gif_failed, outfile>>

VARIABLES
    vpc,             \* position inside pixelate_video_file
    source,          \* the input file: what ffprobe and the decoder find in it
    video_pixel_size, video_upscale,
    probed,          \* width, height, fps and has_audio taken from the probe
    process,         \* the encoder process
    cap,             \* the cv2.VideoCapture
    frame,           \* the frame last read, then pixelated
    decoded,         \* the frames the decoder has returned, in order
    written,         \* the writes made to the encoder's stdin, in order
    escaped          \* the exceptions the caller has observed

vidvars == <<vpc, source, video_pixel_size, video_upscale, probed, process, cap,
             frame, decoded, written, escaped>>

VARIABLES
    kpc,             \* position of the producer, lines 129-138
    k_frames,        \* frames the producer has still to write
    stdin_pipe,      \* frames in the encoder's stdin pipe
    stdin_open,      \* the producer's write end of the stdin pipe is open
    stderr_pipe,     \* log lines in the encoder's stderr pipe, which nobody reads
    log_rate,        \* log lines the encoder writes for each frame
    enc              \* the encoder process

pipevars == <<kpc, k_frames, stdin_pipe, stdin_open, stderr_pipe, log_rate, enc>>

VARIABLES
    requests,        \* each request's endpoint, content type and filename
    hpc,             \* each request's position inside its handler
    unique_id,       \* each request's uuid.uuid4(), 0 before the call
    files,           \* the files under UPLOADS_DIR and PROCESSED_DIR, with their creator
    created,         \* every file a request has ever created
    foreign,         \* accesses of a request to a file another request created
    caught,          \* the exception a handler's try block raised, "" if none
    response         \* each request's response

apivars == <<requests, hpc, unique_id, files, created, foreign, caught, response>>

VARIABLES
    upc,             \* position inside the generator upload_and_process
    file_path,       \* the argument: no file, or a file with its extension
    ui_pixel_size, ui_upscale,
    input_exists,    \* the copy at input_path exists
    input_created,   \* shutil.copy has created the file at input_path
    output_exists,   \* the file at output_path exists
    copies, removes, \* calls of shutil.copy and of os.remove so far
    yields,          \* the updates the generator has yielded, in order
    ui_caught,       \* the exception the try block raised, "" if none
    ui_escaped       \* the exceptions that left the generator

uivars == <<upc, file_path, ui_pixel_size, ui_upscale, input_exists, input_created,
            output_exists, copies, removes, yields, ui_caught, ui_escaped>>

hostvars == <<pipevars, apivars, uivars>>

imgvars == <<pc, image, pixel_size, n_colors, upscale_factor, small_bgr,
             centers, labels, iter, quantized_small_bgr, result>>

(* ---------------------------- helpers ---------------------------------- *)
Min(a, b) == IF a < b THEN a ELSE b
Max(a, b) == IF a > b THEN a ELSE b

Grid(h, w) == (0 .. h - 1) \X (0 .. w - 1)

None == [shape |-> <<>>, data |-> <<>>]

(* image[:, :, :3] and image[:, :, 3]                                      *)
ColorPart(img) ==
    [shape |-> <<img.shape[1], img.shape[2], 3>>,
     data |-> [p \in DOMAIN img.data |-> SubSeq(img.data[p], 1, 3)]]

AlphaPart(img) == [p \in DOMAIN img.data |-> img.data[p][4]]

Channel(buf, c) == [p \in DOMAIN buf.data |-> buf.data[p][c]]

(* cv2.resize(..., INTER_LINEAR) of one plane from h x w down to sh x sw:  *)
(* destination x samples the source at (x + 1/2) * w / sw - 1/2, clamped   *)
(* to the last column, and blends the two neighbours; rounded half up.     *)
LinCoord(x, n, sn) ==
    LET num == (2 * x + 1) * n - sn
        den == 2 * sn
        s0 == num \div den
    IN  IF num < 0 THEN [lo |-> 0, hi |-> 0, f |-> 0, den |-> den]
        ELSE IF s0 >= n - 1 THEN [lo |-> n - 1, hi |-> n - 1, f |-> 0, den |-> den]
        ELSE [lo |-> s0, hi |-> s0 + 1, f |-> num - s0 * den, den |-> den]

ResizeLinear(plane, h, w, sh, sw) ==
    [p \in Grid(sh, sw) |->
        LET cy == LinCoord(p[1], h, sh)
            cx == LinCoord(p[2], w, sw)
            tot == cy.den * cx.den
            acc == plane[<<cy.lo, cx.lo>>] * (cy.den - cy.f) * (cx.den - cx.f)
                 + plane[<<cy.lo, cx.hi>>] * (cy.den - cy.f) * cx.f
                 + plane[<<cy.hi, cx.lo>>] * cy.f * (cx.den - cx.f)
                 + plane[<<cy.hi, cx.hi>>] * cy.f * cx.f
        IN  (2 * acc + tot) \div (2 * tot)]

(* cv2.resize(..., INTER_NEAREST) from sh x sw to dh x dw: destination x   *)
(* reads source floor(x * sw / dw), clamped to the last column.            *)
ResizeNearest(plane, sh, sw, dh, dw) ==
    [p \in Grid(dh, dw) |->
        plane[<<Min((p[1] * sh) \div dh, sh - 1), Min((p[2] * sw) \div dw, sw - 1)>>]]

SmallDim(n, p) == Max(1, n \div p)

(* variant of EffectiveNColors without the clamp to the pixel count        *)
EffectiveNColorsUnclamped(n, num_pixels) == n

EffectiveNColors(n, num_pixels) == Min(n, num_pixels)

(* small_bgr.reshape((-1, 3)): the pixels in row-major order, 1-based      *)
Reshape(buf) ==
    [n \in 1 .. buf.shape[1] * buf.shape[2] |->
        buf.data[<<(n - 1) \div buf.shape[2], (n - 1) % buf.shape[2]>>]]

(* ---------------------------- cv2.kmeans ------------------------------- *)
(* A centre is the mean of a group of pixels, kept exactly as the sum of   *)
(* the group, s, over its size, n.                                         *)
PointCenter(px) == [s |-> px, n |-> 1]

Sq(x) == x * x

(* squared distance from pixel px to centre c, times c.n squared           *)
ScaledDist(px, c) ==
    Sq(px[1] * c.n - c.s[1]) + Sq(px[2] * c.n - c.s[2]) + Sq(px[3] * c.n - c.s[3])

Closer(px, a, b) == ScaledDist(px, a) * Sq(b.n) < ScaledDist(px, b) * Sq(a.n)

(* KMeansDistanceComputer: the first centre at the least distance          *)
Nearest(px, cs) ==
    CHOOSE k \in 1 .. Len(cs) :
        /\ \A j \in 1 .. Len(cs) : ~Closer(px, cs[j], cs[k])
        /\ \A j \in 1 .. k - 1 : Closer(px, cs[k], cs[j])

AssignLabels(pixels, cs) == [i \in 1 .. Len(pixels) |-> Nearest(pixels[i], cs)]

(* generateCentersPP: the first centre is any sample; each further one is  *)
(* drawn with probability proportional to its squared distance to the      *)
(* nearest centre chosen so far, so it is a sample at a positive distance, *)
(* or the first sample once every distance is zero.                        *)
PPCandidates(pixels, chosen) ==
    IF chosen = <<>> THEN 1 .. Len(pixels)
    ELSE LET far == {i \in 1 .. Len(pixels) :
                        \A j \in 1 .. Len(chosen) : pixels[i] # pixels[chosen[j]]}
         IN  IF far = {} THEN {1} ELSE far

RECURSIVE GenerateCentersPP(_, _, _)
GenerateCentersPP(pixels, K, chosen) ==
    IF Len(chosen) = K THEN {[k \in 1 .. K |-> PointCenter(pixels[chosen[k]])]}
    ELSE UNION {GenerateCentersPP(pixels, K, Append(chosen, i)) :
                    i \in PPCandidates(pixels, chosen)}

Members(lab, k) == {i \in 1 .. Len(lab) : lab[i] = k}

RECURSIVE SumOver(_, _, _)
SumOver(pixels, S, c) ==
    IF S = {} THEN 0
    ELSE LET i == CHOOSE x \in S : TRUE
         IN  pixels[i][c] + SumOver(pixels, S \ {i}, c)

GroupCenter(pixels, S) ==
    [s |-> <<SumOver(pixels, S, 1), SumOver(pixels, S, 2), SumOver(pixels, S, 3)>>,
     n |-> Cardinality(S)]

(* the cluster with the most members, the first of them on a tie           *)
BiggestCluster(lab, K) ==
    CHOOSE m \in 1 .. K :
        /\ \A j \in 1 .. K : Cardinality(Members(lab, j)) <= Cardinality(Members(lab, m))
        /\ \A j \in 1 .. m - 1 : Cardinality(Members(lab, j)) < Cardinality(Members(lab, m))

(* the member of cluster m farthest from its mean, the last one on a tie   *)
Farthest(pixels, lab, m) ==
    LET S == Members(lab, m)
        c == GroupCenter(pixels, S)
    IN  CHOOSE i \in S :
            /\ \A j \in S : ScaledDist(pixels[j], c) <= ScaledDist(pixels[i], c)
            /\ \A j \in S : j > i => ScaledDist(pixels[j], c) < ScaledDist(pixels[i], c)

(* an empty cluster takes the farthest point of the biggest cluster        *)
RECURSIVE FixEmptyClusters(_, _, _, _)
FixEmptyClusters(pixels, lab, K, k) ==
    IF k > K THEN lab
    ELSE IF Members(lab, k) # {} THEN FixEmptyClusters(pixels, lab, K, k + 1)
    ELSE LET m == BiggestCluster(lab, K)
             i == Farthest(pixels, lab, m)
         IN  FixEmptyClusters(pixels, [lab EXCEPT ![i] = k], K, k + 1)

ComputeCenters(pixels, lab, K) == [k \in 1 .. K |-> GroupCenter(pixels, Members(lab, k))]

(* max_center_shift <= epsilon, epsilon squared being 1 / EpsInv^2         *)
ShiftWithinEps(old, new) ==
    \A k \in 1 .. Len(new) :
        Sq(EpsInv) * ( Sq(new[k].s[1] * old[k].n - old[k].s[1] * new[k].n)
                     + Sq(new[k].s[2] * old[k].n - old[k].s[2] * new[k].n)
                     + Sq(new[k].s[3] * old[k].n - old[k].s[3] * new[k].n) )
            <= Sq(old[k].n * new[k].n)

(* np.uint8(centers): the float mean truncated                             *)
Uint8(c) == <<c.s[1] \div c.n, c.s[2] \div c.n, c.s[3] \div c.n>>

(* ---------------------------- pixelate_image --------------------------- *)
(* The argument buffers: the blue channel steps from 0 to MaxLevel at some *)
(* column and the green channel at some row (a coarse form of the test's   *)
(* gradient image); a 4-channel buffer carries a checkerboard alpha.       *)
Step(i, cut) == IF i < cut THEN 0 ELSE MaxLevel

Buffer(h, w, c, colcut, rowcut) ==
    [shape |-> <<h, w, c>>,
     data |-> [p \in Grid(h, w) |->
                  IF c = 4
                  THEN <<Step(p[2], colcut), Step(p[1], rowcut), 0,
                         IF (p[1] + p[2]) % 2 = 0 THEN MaxLevel ELSE 0>>
                  ELSE <<Step(p[2], colcut), Step(p[1], rowcut), 0>>]]

Buffers ==
    UNION { { Buffer(h, w, c, colcut, rowcut) :
                c \in {3, 4}, colcut \in 0 .. w, rowcut \in 0 .. h } :
            h \in 0 .. MaxH, w \in 0 .. MaxW }

InitImage ==
    /\ pc = "start"
    /\ image \in Buffers
    /\ pixel_size \in 1 .. MaxPixelSize
    /\ n_colors \in MinColors .. MaxColors
    /\ upscale_factor \in 1 .. MaxUpscale
    /\ small_bgr = None
    /\ centers = <<>>
    /\ labels = <<>>
    /\ iter = 0
    /\ quantized_small_bgr = None
    /\ result = None

Height == image.shape[1]
Width == image.shape[2]
HasAlpha == image.shape[3] = 4
SmallHeight == SmallDim(Height, pixel_size)
SmallWidth == SmallDim(Width, pixel_size)

(* cv2.resize(bgr, (small_width, small_height), INTER_LINEAR)              *)
SmallBgr(img, sh, sw) ==
    LET bgr == ColorPart(img)
        b == ResizeLinear(Channel(bgr, 1), img.shape[1], img.shape[2], sh, sw)
        g == ResizeLinear(Channel(bgr, 2), img.shape[1], img.shape[2], sh, sw)
        r == ResizeLinear(Channel(bgr, 3), img.shape[1], img.shape[2], sh, sw)
    IN  [shape |-> <<sh, sw, 3>>,
         data |-> [p \in Grid(sh, sw) |-> <<b[p], g[p], r[p]>>]]

(* variant of ZeroAreaReturn returning the colour part, bgr                *)
ReturnDropsAlpha(img) == ColorPart(img)

(* line 19: return image                                                   *)
ZeroAreaReturn(img) == img

(* lines 9-30: split the channels, return a zero-area buffer as it is,     *)
(* downsample, and skip the clustering when effective_n_colors < 1         *)
Downscale ==
    /\ pc = "start"
    /\ IF Height = 0 \/ Width = 0
       THEN /\ result' = ZeroAreaReturn(image)
            /\ pc' = "done"
            /\ UNCHANGED <<small_bgr, quantized_small_bgr>>
       ELSE LET sb == SmallBgr(image, SmallHeight, SmallWidth)
            IN  /\ small_bgr' = sb
                /\ IF EffectiveNColors(n_colors, Len(Reshape(sb))) < 1
                   THEN quantized_small_bgr' = sb /\ pc' = "upscale"
                   ELSE UNCHANGED quantized_small_bgr /\ pc' = "kmeans"
                /\ UNCHANGED result
    /\ UNCHANGED <<image, pixel_size, n_colors, upscale_factor, centers, labels, iter>>
    /\ UNCHANGED <<gifvars, vidvars, hostvars>>

(* line 33, cv2.kmeans: it rejects K < 1 and K > N; its first iteration    *)
(* draws the centres and labels every sample with its nearest centre       *)
KMeansInit ==
    /\ pc = "kmeans"
    /\ LET pixels == Reshape(small_bgr)
           K == EffectiveNColors(n_colors, Len(pixels))
       IN  IF K < 1 \/ K > Len(pixels)
           THEN pc' = "raised" /\ UNCHANGED <<centers, labels, iter>>
           ELSE \E cs \in GenerateCentersPP(pixels, K, <<>>) :
                   /\ centers' = cs
                   /\ labels' = AssignLabels(pixels, cs)
                   /\ iter' = 1
                   /\ pc' = "kmeans_iter"
    /\ UNCHANGED <<image, pixel_size, n_colors, upscale_factor, small_bgr,
                   quantized_small_bgr, result>>
    /\ UNCHANGED <<gifvars, vidvars, hostvars>>

(* line 33, one further iteration of cv2.kmeans: recompute the centres,    *)
(* stop on the iteration count or the centre shift, else relabel           *)
KMeansIterate ==
    /\ pc = "kmeans_iter"
    /\ LET pixels == Reshape(small_bgr)
           K == Len(centers)
           lab == FixEmptyClusters(pixels, labels, K, 1)
           new == ComputeCenters(pixels, lab, K)
           isLastIter == iter + 1 = Max(MaxIter, 2) \/ ShiftWithinEps(centers, new)
       IN  /\ centers' = new
           /\ iter' = iter + 1
           /\ IF isLastIter
              THEN labels' = lab /\ pc' = "quantize"
              ELSE labels' = AssignLabels(pixels, new) /\ pc' = "kmeans_iter"
    /\ UNCHANGED <<image, pixel_size, n_colors, upscale_factor, small_bgr,
                   quantized_small_bgr, result>>
    /\ UNCHANGED <<gifvars, vidvars, hostvars>>

(* variant of QuantizedPixels that keeps the downsampled colours           *)
QuantizedPixelsKeepSmooth(cs, lab, shape) == small_bgr

(* lines 34-36: centers[labels.flatten()].reshape(small_bgr.shape)         *)
QuantizedPixels(cs, lab, shape) ==
    [shape |-> shape,
     data |-> [p \in Grid(shape[1], shape[2]) |-> Uint8(cs[lab[p[1] * shape[2] + p[2] + 1]])]]

Quantize ==
    /\ pc = "quantize"
    /\ quantized_small_bgr' = QuantizedPixels(centers, labels, small_bgr.shape)
    /\ pc' = "upscale"
    /\ UNCHANGED <<image, pixel_size, n_colors, upscale_factor, small_bgr,
                   centers, labels, iter, result>>
    /\ UNCHANGED <<gifvars, vidvars, hostvars>>

(* variant of FinalWidth computed from the number of whole blocks          *)
FinalWidthFromBlocks == SmallWidth * pixel_size * upscale_factor

FinalHeight == Height * upscale_factor
FinalWidth == Width * upscale_factor

(* line 40: the colour buffer upscaled with INTER_NEAREST                  *)
PixelatedBgr(q, fh, fw) ==
    LET b == ResizeNearest(Channel(q, 1), q.shape[1], q.shape[2], fh, fw)
        g == ResizeNearest(Channel(q, 2), q.shape[1], q.shape[2], fh, fw)
        r == ResizeNearest(Channel(q, 3), q.shape[1], q.shape[2], fh, fw)
    IN  [shape |-> <<fh, fw, 3>>,
         data |-> [p \in Grid(fh, fw) |-> <<b[p], g[p], r[p]>>]]

(* lines 43-44: alpha resized linearly, then upscaled with INTER_NEAREST   *)
PixelatedAlpha(img, sh, sw, fh, fw) ==
    ResizeNearest(ResizeLinear(AlphaPart(img), img.shape[1], img.shape[2], sh, sw),
                  sh, sw, fh, fw)

(* variant of Merge that leaves the alpha plane out                        *)
MergeDropsPlane(buf, plane) == buf

(* line 45: cv2.merge([pixelated_bgr, pixelated_alpha])                    *)
Merge(buf, plane) ==
    [shape |-> <<buf.shape[1], buf.shape[2], 4>>,
     data |-> [p \in DOMAIN buf.data |-> Append(buf.data[p], plane[p])]]

(* lines 38-49                                                             *)
Upscale ==
    /\ pc = "upscale"
    /\ LET bgr == PixelatedBgr(quantized_small_bgr, FinalHeight, FinalWidth)
       IN  result' = IF HasAlpha
                     THEN Merge(bgr, PixelatedAlpha(image, SmallHeight, SmallWidth,
                                                    FinalHeight, FinalWidth))
                     ELSE bgr
    /\ pc' = "done"
    /\ UNCHANGED <<image, pixel_size, n_colors, upscale_factor, small_bgr,
                   centers, labels, iter, quantized_small_bgr>>
    /\ UNCHANGED <<gifvars, vidvars, hostvars>>

(* ---------------------------- pixelate_gif_file ------------------------ *)
(* line 76: img.info.get('duration', 100)                                  *)
DefaultDuration == 100

(* the header of a frame with no graphic control extension gives none      *)
NoDuration == 0 - 1

(* nothing written at output_path                                          *)
Absent == [state |-> "absent"]

(* a source frame: its picture, and the duration its header declares       *)
GifFrames == [pic : {"a", "b"}, duration : {NoDuration, 0, 40}]

GifSources == UNION {[1 .. n -> GifFrames] : n \in 1 .. MaxGifFrames}

InitGif ==
    /\ gpc = "open"
    /\ gif \in GifSources
    /\ gif_pixel_size \in 1 .. MaxPixelSize
    /\ gif_upscale \in 1 .. MaxUpscale
    /\ gi = 0
    /\ frames = <<>>
    /\ durations = <<>>
    /\ gif_failed = ""
    /\ outfile = Absent

NFrames == Len(gif)
IsAnimated == NFrames # 1

DurationOf(fr) == IF fr.duration = NoDuration THEN DefaultDuration ELSE fr.duration

(* lines 78-85: convert("RGBA"), RGBA to BGRA, pixelate_image, back to     *)
(* RGBA, Image.fromarray: the frame's picture, quantized and upscaled      *)
PilFrame(fr, p, f) ==
    [mode |-> "RGBA", of |-> fr.pic, pixel_size |-> p, scale |-> f]

(* line 62: Image.open raises on a file it cannot identify                 *)
GifOpenFails ==
    /\ gpc = "open"
    /\ gpc' = "raised"
    /\ gif_failed' = "open"
    /\ UNCHANGED <<gif, gif_pixel_size, gif_upscale, gi, frames, durations, outfile>>
    /\ UNCHANGED <<imgvars, vidvars, hostvars>>

(* lines 62-63 and 72-73                                                   *)
GifOpen ==
    /\ gpc = "open"
    /\ gpc' = IF IsAnimated THEN "loop" ELSE "single"
    /\ UNCHANGED <<gif, gif_pixel_size, gif_upscale, gi, frames, durations,
                   gif_failed, outfile>>
    /\ UNCHANGED <<imgvars, vidvars, hostvars>>

(* lines 64-70: a source that is not animated is saved as one picture      *)
GifSingle ==
    /\ gpc = "single"
    /\ outfile' = [state |-> "written",
                   frames |-> <<PilFrame(gif[1], gif_pixel_size, gif_upscale)>>,
                   save_all |-> FALSE]
    /\ gpc' = "returned"
    /\ UNCHANGED <<gif, gif_pixel_size, gif_upscale, gi, frames, durations, gif_failed>>
    /\ UNCHANGED <<imgvars, vidvars, hostvars>>

GifSingleFails ==
    /\ gpc = "single"
    /\ \E step \in {"decode", "quantize"} : gif_failed' = step
    /\ gpc' = "raised"
    /\ UNCHANGED <<gif, gif_pixel_size, gif_upscale, gi, frames, durations, outfile>>
    /\ UNCHANGED <<imgvars, vidvars, hostvars>>

(* lines 74-86, one pass of the loop body for frame i                      *)
GifFrame ==
    /\ gpc = "loop"
    /\ gi < NFrames
    /\ durations' = Append(durations, DurationOf(gif[gi + 1]))
    /\ frames' = Append(frames, PilFrame(gif[gi + 1], gif_pixel_size, gif_upscale))
    /\ gi' = gi + 1
    /\ UNCHANGED <<gpc, gif, gif_pixel_size, gif_upscale, gif_failed, outfile>>
    /\ UNCHANGED <<imgvars, vidvars, hostvars>>

(* variant of GifFrameFails that saves the frames gathered so far          *)
GifFrameFailsKeepsPartial ==
    /\ gpc = "loop"
    /\ gi < NFrames
    /\ \E step \in {"decode", "quantize"} : gif_failed' = step
    /\ gpc' = "raised"
    /\ outfile' = [state |-> "written", frames |-> frames, duration |-> durations,
                   loop |-> 0, disposal |-> 2, save_all |-> TRUE]
    /\ UNCHANGED <<gif, gif_pixel_size, gif_upscale, gi, frames, durations>>
    /\ UNCHANGED <<imgvars, vidvars, hostvars>>

(* lines 75-82: seek, convert or pixelate_image raises for frame i; the    *)
(* exception leaves the function through the with block                    *)
GifFrameFails ==
    /\ gpc = "loop"
    /\ gi < NFrames
    /\ \E step \in {"decode", "quantize"} :
          /\ gif_failed' = step
          /\ durations' = IF step = "quantize"
                          THEN Append(durations, DurationOf(gif[gi + 1]))
                          ELSE durations
    /\ gpc' = "raised"
    /\ UNCHANGED <<gif, gif_pixel_size, gif_upscale, gi, frames, outfile>>
    /\ UNCHANGED <<imgvars, vidvars, hostvars>>

(* Pillow's GIF writer (_write_multiple_frames) compares each frame with   *)
(* the one it kept last: a frame identical to it is not written, and its   *)
(* duration is added to the kept frame's.                                  *)
RECURSIVE MergeIdentical(_, _, _, _)
MergeIdentical(fs, ds, i, kept) ==
    IF i > Len(fs) THEN kept
    ELSE IF kept # <<>> /\ kept[Len(kept)].im = fs[i]
    THEN MergeIdentical(fs, ds, i + 1,
             [kept EXCEPT ![Len(kept)].duration = kept[Len(kept)].duration + ds[i]])
    ELSE MergeIdentical(fs, ds, i + 1, Append(kept, [im |-> fs[i], duration |-> ds[i]]))

(* lines 88-97: the single save of every frame, frames[0] followed by      *)
(* frames[1:], with the durations, loop = 0 and disposal = 2               *)
SaveAll(fs, ds) ==
    LET sequence == <<fs[1]>> \o SubSeq(fs, 2, Len(fs))
        kept == MergeIdentical(sequence, ds, 1, <<>>)
    IN  [state |-> "written",
         frames |-> [k \in 1 .. Len(kept) |-> kept[k].im],
         duration |-> [k \in 1 .. Len(kept) |-> kept[k].duration],
         loop |-> 0, disposal |-> 2, save_all |-> TRUE]

GifSave ==
    /\ gpc = "loop"
    /\ gi = NFrames
    /\ outfile' = IF frames # <<>> THEN SaveAll(frames, durations) ELSE outfile
    /\ gpc' = "returned"
    /\ UNCHANGED <<gif, gif_pixel_size, gif_upscale, gi, frames, durations, gif_failed>>
    /\ UNCHANGED <<imgvars, vidvars, hostvars>>

(* lines 89-97: save raises, leaving a file it had begun                   *)
GifSaveFails ==
    /\ gpc = "loop"
    /\ gi = NFrames
    /\ frames # <<>>
    /\ gif_failed' = "save"
    /\ outfile' = [state |-> "partial"]
    /\ gpc' = "raised"
    /\ UNCHANGED <<gif, gif_pixel_size, gif_upscale, gi, frames, durations>>
    /\ UNCHANGED <<imgvars, vidvars, hostvars>>

NextGif ==
    \/ GifOpen \/ GifOpenFails \/ GifSingle \/ GifSingleFails
    \/ GifFrame \/ GifFrameFails \/ GifSave \/ GifSaveFails

(* ---------------------------- pixelate_video_file ---------------------- *)
(* what each step raises when it fails                                     *)
ProbeError == "ffmpeg.Error"
NoVideoStream == "StopIteration"
BadFrameRate == "ZeroDivisionError"
LaunchError == "FileNotFoundError"
QuantizeError == "cv2.error"
PipeError == "BrokenPipeError"

(* the classes above all derive from Exception                             *)
ExceptionClasses ==
    {ProbeError, NoVideoStream, BadFrameRate, LaunchError, QuantizeError, PipeError,
     "RuntimeError"}

(* the input files: readable by ffprobe or not, with or without a video    *)
(* and an audio stream, a frame rate that evaluates or not, and the number *)
(* of frames the decoder yields, if it can open the file at all            *)
Sources ==
    [probe_ok : BOOLEAN, has_video : BOOLEAN, has_audio : BOOLEAN, rate_ok : BOOLEAN,
     width : 1 .. MaxVideoDim, height : 1 .. MaxVideoDim,
     cap_opens : BOOLEAN, n_frames : 0 .. MaxVideoFrames]

NoProcess ==
    [launched |-> FALSE, stdin |-> "none", waited |-> FALSE, status |-> "none",
     config |-> <<>>]
NoCap == [created |-> FALSE, opened |-> FALSE, released |-> FALSE]
NoFrame == [index |-> 0, state |-> "none"]

InitVideo ==
    /\ vpc = "probe"
    /\ source \in Sources
    /\ video_pixel_size \in 1 .. MaxPixelSize
    /\ video_upscale \in 1 .. MaxUpscale
    /\ probed = <<>>
    /\ process = NoProcess
    /\ cap = NoCap
    /\ frame = NoFrame
    /\ decoded = <<>>
    /\ written = <<>>
    /\ escaped = <<>>

(* variant of Catches for a handler written as except ffmpeg.Error         *)
CatchesOnlyFfmpegError(exc) == exc = ProbeError

(* line 140: except Exception                                              *)
Catches(exc) == exc \in ExceptionClasses

(* lines 140-141: what leaves the function when a step raises exc          *)
Reraised(exc) ==
    IF Catches(exc)
    THEN [type |-> "RuntimeError",
          message |-> <<"Failed during video processing: ", exc>>,
          context |-> exc]
    ELSE [type |-> exc, message |-> <<exc>>, context |-> "none"]

Raise(exc) ==
    /\ vpc' = "raised"
    /\ escaped' = Append(escaped, Reraised(exc))

(* lines 102-110: probe the source and read the video stream's fields      *)
VideoProbe ==
    /\ vpc = "probe"
    /\ source.probe_ok /\ source.has_video /\ source.rate_ok
    /\ probed' = [width |-> source.width, height |-> source.height,
                  has_audio |-> source.has_audio,
                  upscaled_width |-> source.width * video_upscale,
                  upscaled_height |-> source.height * video_upscale]
    /\ vpc' = "launch"
    /\ UNCHANGED <<source, video_pixel_size, video_upscale, process, cap, frame,
                   decoded, written, escaped>>
    /\ UNCHANGED <<imgvars, gifvars, hostvars>>

VideoProbeFails ==
    /\ vpc = "probe"
    /\ ~(source.probe_ok /\ source.has_video /\ source.rate_ok)
    /\ Raise(IF ~source.probe_ok THEN ProbeError
             ELSE IF ~source.has_video THEN NoVideoStream
             ELSE BadFrameRate)
    /\ UNCHANGED <<source, video_pixel_size, video_upscale, probed, process, cap, frame,
                   decoded, written>>
    /\ UNCHANGED <<imgvars, gifvars, hostvars>>

(* variant of EncoderConfig that never adds the source's audio input       *)
EncoderConfigNoAudio(pr, src) ==
    [format |-> "rawvideo", pix_fmt |-> "bgr24",
     s |-> <<pr.upscaled_width, pr.upscaled_height>>,
     audio_input |-> "none", vcodec |-> "libx264", acodec |-> "copy"]

(* lines 113-125: the encoder's inputs and output, then run_async          *)
EncoderConfig(pr, src) ==
    [format |-> "rawvideo", pix_fmt |-> "bgr24",
     s |-> <<pr.upscaled_width, pr.upscaled_height>>,
     audio_input |-> IF pr.has_audio THEN "source" ELSE "none",
     vcodec |-> "libx264", acodec |-> IF pr.has_audio THEN "aac" ELSE "copy"]

(* lines 116-121: the streams handed to ffmpeg.output are the streams of   *)
(* the output file                                                         *)
OutputStreams(config) ==
    {"video"} \cup (IF config.audio_input = "source" THEN {"audio"} ELSE {})

VideoLaunch ==
    /\ vpc = "launch"
    /\ process' = [launched |-> TRUE, stdin |-> "open", waited |-> FALSE,
                   status |-> "none", config |-> EncoderConfig(probed, source)]
    /\ vpc' = "capture"
    /\ UNCHANGED <<source, video_pixel_size, video_upscale, probed, cap, frame,
                   decoded, written, escaped>>
    /\ UNCHANGED <<imgvars, gifvars, hostvars>>

VideoLaunchFails ==
    /\ vpc = "launch"
    /\ Raise(LaunchError)
    /\ UNCHANGED <<source, video_pixel_size, video_upscale, probed, process, cap, frame,
                   decoded, written>>
    /\ UNCHANGED <<imgvars, gifvars, hostvars>>

(* line 128: cv2.VideoCapture(input_path) does not raise when it cannot    *)
(* open the file                                                           *)
VideoCapture ==
    /\ vpc = "capture"
    /\ cap' = [created |-> TRUE, opened |-> source.cap_opens, released |-> FALSE]
    /\ vpc' = "read"
    /\ UNCHANGED <<source, video_pixel_size, video_upscale, probed, process, frame,
                   decoded, written, escaped>>
    /\ UNCHANGED <<imgvars, gifvars, hostvars>>

(* variant of VideoRead that reads twice and keeps the second frame        *)
VideoReadSkipsFrame ==
    /\ vpc = "read"
    /\ IF cap.opened /\ Len(decoded) + 1 < source.n_frames
       THEN /\ decoded' = decoded \o <<Len(decoded) + 1, Len(decoded) + 2>>
            /\ frame' = [index |-> Len(decoded) + 2, state |-> "raw"]
            /\ vpc' = "pixelate"
       ELSE /\ vpc' = "close"
            /\ UNCHANGED <<decoded, frame>>
    /\ UNCHANGED <<source, video_pixel_size, video_upscale, probed, process, cap,
                   written, escaped>>
    /\ UNCHANGED <<imgvars, gifvars, hostvars>>

(* lines 129-132: the loop test and cap.read()                             *)
VideoRead ==
    /\ vpc = "read"
    /\ IF cap.opened /\ Len(decoded) < source.n_frames
       THEN /\ decoded' = Append(decoded, Len(decoded) + 1)
            /\ frame' = [index |-> Len(decoded) + 1, state |-> "raw"]
            /\ vpc' = "pixelate"
       ELSE /\ vpc' = "close"
            /\ UNCHANGED <<decoded, frame>>
    /\ UNCHANGED <<source, video_pixel_size, video_upscale, probed, process, cap,
                   written, escaped>>
    /\ UNCHANGED <<imgvars, gifvars, hostvars>>

(* line 133                                                                *)
VideoPixelate ==
    /\ vpc = "pixelate"
    /\ frame' = [frame EXCEPT !.state = "pixelated"]
    /\ vpc' = "write"
    /\ UNCHANGED <<source, video_pixel_size, video_upscale, probed, process, cap,
                   decoded, written, escaped>>
    /\ UNCHANGED <<imgvars, gifvars, hostvars>>

VideoPixelateFails ==
    /\ vpc = "pixelate"
    /\ Raise(QuantizeError)
    /\ UNCHANGED <<source, video_pixel_size, video_upscale, probed, process, cap, frame,
                   decoded, written>>
    /\ UNCHANGED <<imgvars, gifvars, hostvars>>

(* variant of ToBytes for frames that were not upscaled                    *)
ToBytesUnscaled(fr, src, f) ==
    [of |-> fr.index, state |-> fr.state, nbytes |-> src.width * src.height * 3]

(* line 134: pixelated_frame.tobytes(), a frame of the source's size times *)
(* upscale_factor, three bytes a pixel                                     *)
ToBytes(fr, src, f) ==
    [of |-> fr.index, state |-> fr.state,
     nbytes |-> src.width * f * src.height * f * 3]

VideoWrite ==
    /\ vpc = "write"
    /\ written' = Append(written, ToBytes(frame, source, video_upscale))
    /\ vpc' = "read"
    /\ UNCHANGED <<source, video_pixel_size, video_upscale, probed, process, cap, frame,
                   decoded, escaped>>
    /\ UNCHANGED <<imgvars, gifvars, hostvars>>

(* line 134: the encoder has exited and the pipe is broken                 *)
VideoWriteFails ==
    /\ vpc = "write"
    /\ Raise(PipeError)
    /\ UNCHANGED <<source, video_pixel_size, video_upscale, probed, process, cap, frame,
                   decoded, written>>
    /\ UNCHANGED <<imgvars, gifvars, hostvars>>

(* variant of VideoClose that goes on to wait with stdin still open        *)
VideoCloseLeavesOpen ==
    /\ vpc = "close"
    /\ vpc' = "wait"
    /\ UNCHANGED <<source, video_pixel_size, video_upscale, probed, process, cap, frame,
                   decoded, written, escaped>>
    /\ UNCHANGED <<imgvars, gifvars, hostvars>>

(* line 136                                                                *)
VideoClose ==
    /\ vpc = "close"
    /\ process' = [process EXCEPT !.stdin = "closed"]
    /\ vpc' = "wait"
    /\ UNCHANGED <<source, video_pixel_size, video_upscale, probed, cap, frame,
                   decoded, written, escaped>>
    /\ UNCHANGED <<imgvars, gifvars, hostvars>>

(* line 136: close flushes into a broken pipe                              *)
VideoCloseFails ==
    /\ vpc = "close"
    /\ Raise(PipeError)
    /\ UNCHANGED <<source, video_pixel_size, video_upscale, probed, process, cap, frame,
                   decoded, written>>
    /\ UNCHANGED <<imgvars, gifvars, hostvars>>

(* line 137: process.wait() returns the exit status, which is dropped      *)
VideoWait ==
    /\ vpc = "wait"
    /\ \E status \in {0, 1} :
          process' = [process EXCEPT !.waited = TRUE, !.status = status]
    /\ vpc' = "release"
    /\ UNCHANGED <<source, video_pixel_size, video_upscale, probed, cap, frame,
                   decoded, written, escaped>>
    /\ UNCHANGED <<imgvars, gifvars, hostvars>>

(* line 138                                                                *)
VideoRelease ==
    /\ vpc = "release"
    /\ cap' = [cap EXCEPT !.released = TRUE]
    /\ vpc' = "returned"
    /\ UNCHANGED <<source, video_pixel_size, video_upscale, probed, process, frame,
                   decoded, written, escaped>>
    /\ UNCHANGED <<imgvars, gifvars, hostvars>>

NextVideo ==
    \/ VideoProbe \/ VideoProbeFails \/ VideoLaunch \/ VideoLaunchFails
    \/ VideoCapture \/ VideoRead \/ VideoPixelate \/ VideoPixelateFails
    \/ VideoWrite \/ VideoWriteFails \/ VideoClose \/ VideoCloseFails
    \/ VideoWait \/ VideoRelease

(* ------------- producer and encoder over blocking pipes ---------------- *)
(* run_async(pipe_stdin=True, quiet=True), lines 121-125: the encoder is a *)
(* process of its own; its stdin is a pipe the producer writes, its stdout *)
(* and stderr are pipes too, and lines 129-138 never read them.            *)
NoEncoder == [state |-> "none", pending |-> 0, eof |-> FALSE, status |-> 0 - 1]

InitPipe ==
    /\ kpc = "write"
    /\ k_frames \in 0 .. MaxPipeFrames
    /\ log_rate \in 0 .. MaxLogRate
    /\ stdin_pipe = 0
    /\ stdin_open = TRUE
    /\ stderr_pipe = 0
    /\ enc = [state |-> "reading", pending |-> 0, eof |-> FALSE, status |-> 0 - 1]

(* line 134: a blocking write, that returns once the pipe has room         *)
PipeWrite ==
    /\ kpc = "write" /\ k_frames > 0
    /\ enc.state # "exited"
    /\ stdin_pipe < StdinCapacity
    /\ stdin_pipe' = stdin_pipe + 1
    /\ k_frames' = k_frames - 1
    /\ UNCHANGED <<kpc, stdin_open, stderr_pipe, log_rate, enc>>
    /\ UNCHANGED <<imgvars, gifvars, vidvars, apivars, uivars>>

(* line 134: the read end is gone, the write raises BrokenPipeError        *)
PipeWriteBroken ==
    /\ kpc = "write" /\ k_frames > 0
    /\ enc.state = "exited"
    /\ kpc' = "raised"
    /\ UNCHANGED <<k_frames, stdin_pipe, stdin_open, stderr_pipe, log_rate, enc>>
    /\ UNCHANGED <<imgvars, gifvars, vidvars, apivars, uivars>>

(* lines 131-136: the decoder has no more frames, process.stdin.close()    *)
PipeClose ==
    /\ kpc = "write" /\ k_frames = 0
    /\ stdin_open' = FALSE
    /\ kpc' = "wait"
    /\ UNCHANGED <<k_frames, stdin_pipe, stderr_pipe, log_rate, enc>>
    /\ UNCHANGED <<imgvars, gifvars, vidvars, apivars, uivars>>

(* line 137: process.wait() returns once the encoder has exited            *)
PipeWait ==
    /\ kpc = "wait"
    /\ enc.state = "exited"
    /\ kpc' = "release"
    /\ UNCHANGED <<k_frames, stdin_pipe, stdin_open, stderr_pipe, log_rate, enc>>
    /\ UNCHANGED <<imgvars, gifvars, vidvars, apivars, uivars>>

(* line 138                                                                *)
PipeRelease ==
    /\ kpc = "release"
    /\ kpc' = "returned"
    /\ UNCHANGED <<k_frames, stdin_pipe, stdin_open, stderr_pipe, log_rate, enc>>
    /\ UNCHANGED <<imgvars, gifvars, vidvars, apivars, uivars>>

(* the encoder takes a frame from its stdin and has log_rate lines to log  *)
EncoderRead ==
    /\ enc.state = "reading"
    /\ stdin_pipe > 0
    /\ stdin_pipe' = stdin_pipe - 1
    /\ enc' = [enc EXCEPT !.pending = log_rate,
                          !.state = IF log_rate > 0 THEN "logging" ELSE "reading"]
    /\ UNCHANGED <<kpc, k_frames, stdin_open, stderr_pipe, log_rate>>
    /\ UNCHANGED <<imgvars, gifvars, vidvars, apivars, uivars>>

(* the encoder's blocking write of a log line to its stderr pipe           *)
EncoderLog ==
    /\ enc.state = "logging"
    /\ stderr_pipe < StderrCapacity
    /\ stderr_pipe' = stderr_pipe + 1
    /\ enc' = [enc EXCEPT !.pending = enc.pending - 1,
                          !.state = IF enc.pending > 1 THEN "logging"
                                    ELSE IF enc.eof THEN "exited" ELSE "reading",
                          !.status = IF enc.pending = 1 /\ enc.eof THEN 0 ELSE enc.status]
    /\ UNCHANGED <<kpc, k_frames, stdin_pipe, stdin_open, log_rate>>
    /\ UNCHANGED <<imgvars, gifvars, vidvars, apivars, uivars>>

(* the encoder reads end of file on stdin, logs its summary and exits      *)
EncoderEof ==
    /\ enc.state = "reading"
    /\ stdin_pipe = 0 /\ ~stdin_open
    /\ enc' = IF log_rate > 0
              THEN [enc EXCEPT !.state = "logging", !.pending = log_rate, !.eof = TRUE]
              ELSE [enc EXCEPT !.state = "exited", !.eof = TRUE, !.status = 0]
    /\ UNCHANGED <<kpc, k_frames, stdin_pipe, stdin_open, stderr_pipe, log_rate>>
    /\ UNCHANGED <<imgvars, gifvars, vidvars, apivars, uivars>>

(* the encoder fails and exits before the end of its input                 *)
EncoderCrash ==
    /\ enc.state = "reading"
    /\ ~enc.eof
    /\ enc' = [enc EXCEPT !.state = "exited", !.status = 1]
    /\ UNCHANGED <<kpc, k_frames, stdin_pipe, stdin_open, stderr_pipe, log_rate>>
    /\ UNCHANGED <<imgvars, gifvars, vidvars, apivars, uivars>>

ProducerStep == PipeWrite \/ PipeWriteBroken \/ PipeClose \/ PipeWait \/ PipeRelease
EncoderStep == EncoderRead \/ EncoderLog \/ EncoderEof

NextPipe == ProducerStep \/ EncoderStep \/ EncoderCrash

(* ---------------------- main.py: the two POST handlers ----------------- *)
Reqs == 1 .. MaxRequests

(* the values uuid.uuid4() can return: one for every call                  *)
UUIDs == 1 .. MaxRequests

Endpoints == {"/upload/", "/api/pixelate"}

(* a content type is its two parts around the '/', <<>> when the upload    *)
(* has none; a filename is its parts around the '.', <<>> when it is empty *)
NoContentType == <<>>
ContentTypes ==
    {NoContentType, <<"text", "plain">>, <<"image", "gif">>, <<"image", "png">>,
     <<"video", "mp4">>}
Filenames == {<<>>, <<"clip">>, <<"my", "clip", "mp4">>}

NoPath == [dir |-> "", stem |-> 0, suffix |-> "", ext |-> ""]
NoResponse == [status |-> 0, detail |-> <<>>, path |-> NoPath]

(* content_type.startswith(major + '/')                                    *)
StartsWith(ct, major) == ct # NoContentType /\ ct[1] = major

(* lines 47, 100: not file.content_type or not file.filename               *)
Invalid(q) == q.content_type = NoContentType \/ q.filename = <<>>

(* lines 51, 103                                                           *)
Supported(q) ==
    StartsWith(q.content_type, "image") \/ StartsWith(q.content_type, "video")

(* lines 54, 106: file.filename.split('.')[-1]                             *)
FileExtension(filename) == filename[Len(filename)]

(* variant of InputPath that names the saved upload by its extension only  *)
InputPathByExtension(r) ==
    [dir |-> "uploads", stem |-> 0, suffix |-> "",
     ext |-> FileExtension(requests[r].filename)]

(* lines 56-58, 108-110: UPLOADS_DIR/{unique_id}.{file_extension}          *)
InputPath(r) ==
    [dir |-> "uploads", stem |-> unique_id[r], suffix |-> "",
     ext |-> FileExtension(requests[r].filename)]

(* lines 57-59, 109-111: PROCESSED_DIR/{unique_id}_pixelated.{extension}   *)
OutputPath(r) ==
    [dir |-> "processed", stem |-> unique_id[r], suffix |-> "_pixelated",
     ext |-> FileExtension(requests[r].filename)]

(* lines 55, 107: uuid.uuid4() returns a value no earlier call returned    *)
Uuid4 == UUIDs \ {unique_id[x] : x \in Reqs}

Exists(p) == \E f \in files : f.path = p
WriteFile(fs, r, p) == {f \in fs : f.path # p} \cup {[path |-> p, by |-> r]}
RemoveFile(fs, p) == {f \in fs : f.path # p}

(* the accesses of request r to path p that meet another request's file    *)
Touch(r, p) == {[by |-> r, path |-> p] : f \in {g \in files : g.path = p /\ g.by # r}}

InitApi ==
    /\ requests \in [Reqs -> [endpoint : Endpoints, content_type : ContentTypes,
                              filename : Filenames]]
    /\ hpc = [r \in Reqs |-> "received"]
    /\ unique_id = [r \in Reqs |-> 0]
    /\ files = {}
    /\ created = {}
    /\ foreign = {}
    /\ caught = [r \in Reqs |-> ""]
    /\ response = [r \in Reqs |-> NoResponse]

(* lines 47-52, 100-104: HTTP 400 before any path is computed              *)
Reject(r) ==
    /\ hpc[r] = "received"
    /\ Invalid(requests[r]) \/ ~Supported(requests[r])
    /\ response' = [response EXCEPT ![r] =
          [status |-> 400,
           detail |-> <<IF Invalid(requests[r]) THEN "Invalid file type"
                        ELSE "Unsupported file type">>,
           path |-> NoPath]]
    /\ hpc' = [hpc EXCEPT ![r] = "done"]
    /\ UNCHANGED <<requests, unique_id, files, created, foreign, caught>>
    /\ UNCHANGED <<imgvars, gifvars, vidvars, pipevars, uivars>>

(* lines 54-59, 106-111                                                    *)
AssignPaths(r) ==
    /\ hpc[r] = "received"
    /\ ~Invalid(requests[r]) /\ Supported(requests[r])
    /\ \E u \in Uuid4 : unique_id' = [unique_id EXCEPT ![r] = u]
    /\ hpc' = [hpc EXCEPT ![r] = "save"]
    /\ UNCHANGED <<requests, files, created, foreign, caught, response>>
    /\ UNCHANGED <<imgvars, gifvars, vidvars, pipevars, uivars>>

(* lines 63-64, 114-115: the upload is saved at input_path                 *)
Save(r) ==
    /\ hpc[r] = "save"
    /\ files' = WriteFile(files, r, InputPath(r))
    /\ created' = created \cup {[by |-> r, path |-> InputPath(r)]}
    /\ foreign' = foreign \cup Touch(r, InputPath(r))
    /\ hpc' = [hpc EXCEPT ![r] = "process"]
    /\ UNCHANGED <<requests, unique_id, caught, response>>
    /\ UNCHANGED <<imgvars, gifvars, vidvars, pipevars, uivars>>

(* lines 63-64, 114-115: open or write raises; the file is left behind     *)
(* when it was the write                                                   *)
SaveFails(r) ==
    /\ hpc[r] = "save"
    /\ \E left \in BOOLEAN :
          IF left
          THEN /\ files' = WriteFile(files, r, InputPath(r))
               /\ created' = created \cup {[by |-> r, path |-> InputPath(r)]}
               /\ foreign' = foreign \cup Touch(r, InputPath(r))
          ELSE UNCHANGED <<files, created, foreign>>
    /\ caught' = [caught EXCEPT ![r] = "OSError"]
    /\ hpc' = [hpc EXCEPT ![r] = "except"]
    /\ UNCHANGED <<requests, unique_id, response>>
    /\ UNCHANGED <<imgvars, gifvars, vidvars, pipevars, uivars>>

(* lines 67-72, 117-122: the pipeline, in a worker thread, reads the       *)
(* saved upload                                                            *)
ProcessStart(r) ==
    /\ hpc[r] = "process"
    /\ foreign' = foreign \cup Touch(r, InputPath(r))
    /\ hpc' = [hpc EXCEPT ![r] = "processing"]
    /\ UNCHANGED <<requests, unique_id, files, created, caught, response>>
    /\ UNCHANGED <<imgvars, gifvars, vidvars, pipevars, uivars>>

(* how a pipeline call can end: the output written, a normal return with   *)
(* no output written (processing.py lines 58, 129 and 137 do not check     *)
(* cv2.imwrite, cap.isOpened and the encoder's status), or a raise with or *)
(* without a partial output file                                           *)
Outcomes(q) ==
    {"written", "raised", "raised_partial"}
        \cup (IF q.content_type = <<"image", "gif">> THEN {} ELSE {"silent"})

(* lines 67-72, 117-122: the pipeline ends                                 *)
ProcessEnd(r) ==
    /\ hpc[r] = "processing"
    /\ \E o \in Outcomes(requests[r]) :
          /\ IF o \in {"written", "raised_partial"}
             THEN /\ files' = WriteFile(files, r, OutputPath(r))
                  /\ created' = created \cup {[by |-> r, path |-> OutputPath(r)]}
                  /\ foreign' = foreign \cup Touch(r, OutputPath(r))
             ELSE UNCHANGED <<files, created, foreign>>
          /\ IF o \in {"raised", "raised_partial"}
             THEN /\ caught' = [caught EXCEPT ![r] = "ProcessingError"]
                  /\ hpc' = [hpc EXCEPT ![r] = "except"]
             ELSE /\ caught' = caught
                  /\ hpc' = [hpc EXCEPT ![r] = "return"]
    /\ UNCHANGED <<requests, unique_id, response>>
    /\ UNCHANGED <<imgvars, gifvars, vidvars, pipevars, uivars>>

(* lines 75, 124-129: the return value of the try block                    *)
Return(r) ==
    /\ hpc[r] = "return"
    /\ response' = [response EXCEPT ![r] =
          [status |-> 200, detail |-> <<>>, path |-> OutputPath(r)]]
    /\ hpc' = [hpc EXCEPT ![r] = "finally"]
    /\ UNCHANGED <<requests, unique_id, files, created, foreign, caught>>
    /\ UNCHANGED <<imgvars, gifvars, vidvars, pipevars, uivars>>

(* lines 77-84: /upload/ removes input and output; lines 130-134:          *)
(* /api/pixelate removes the output; both answer HTTP 500                  *)
Except(r) ==
    /\ hpc[r] = "except"
    /\ IF requests[r].endpoint = "/upload/"
       THEN /\ files' = RemoveFile(RemoveFile(files, InputPath(r)), OutputPath(r))
            /\ foreign' = foreign \cup Touch(r, InputPath(r)) \cup Touch(r, OutputPath(r))
            /\ response' = [response EXCEPT ![r] =
                  [status |-> 500,
                   detail |-> <<"Error during processing: ", caught[r]>>,
                   path |-> NoPath]]
       ELSE /\ files' = RemoveFile(files, OutputPath(r))
            /\ foreign' = foreign \cup Touch(r, OutputPath(r))
            /\ response' = [response EXCEPT ![r] =
                  [status |-> 500, detail |-> <<caught[r]>>, path |-> NoPath]]
    /\ hpc' = [hpc EXCEPT ![r] = "finally"]
    /\ UNCHANGED <<requests, unique_id, created, caught>>
    /\ UNCHANGED <<imgvars, gifvars, vidvars, pipevars, uivars>>

(* lines 85-88, 135-138: the input is removed if it exists; the response   *)
(* of /upload/ leaves, the FileResponse of /api/pixelate is then sent      *)
Finally(r) ==
    /\ hpc[r] = "finally"
    /\ files' = RemoveFile(files, InputPath(r))
    /\ foreign' = foreign \cup Touch(r, InputPath(r))
    /\ hpc' = [hpc EXCEPT ![r] =
          IF requests[r].endpoint = "/api/pixelate" /\ response[r].status = 200
          THEN "send" ELSE "done"]
    /\ UNCHANGED <<requests, unique_id, created, caught, response>>
    /\ UNCHANGED <<imgvars, gifvars, vidvars, pipevars, uivars>>

(* lines 124-129: the FileResponse reads the file at output_path; a        *)
(* missing file is a server error                                          *)
Send(r) ==
    /\ hpc[r] = "send"
    /\ foreign' = foreign \cup Touch(r, OutputPath(r))
    /\ IF Exists(OutputPath(r))
       THEN /\ hpc' = [hpc EXCEPT ![r] = "background"]
            /\ UNCHANGED response
       ELSE /\ hpc' = [hpc EXCEPT ![r] = "done"]
            /\ response' = [response EXCEPT ![r] =
                  [status |-> 500, detail |-> <<"Internal Server Error">>,
                   path |-> NoPath]]
    /\ UNCHANGED <<requests, unique_id, files, created, caught>>
    /\ UNCHANGED <<imgvars, gifvars, vidvars, pipevars, uivars>>

(* line 128: BackgroundTask(os.remove, output_path), after the send        *)
Background(r) ==
    /\ hpc[r] = "background"
    /\ files' = RemoveFile(files, OutputPath(r))
    /\ foreign' = foreign \cup Touch(r, OutputPath(r))
    /\ hpc' = [hpc EXCEPT ![r] = "done"]
    /\ UNCHANGED <<requests, unique_id, created, caught, response>>
    /\ UNCHANGED <<imgvars, gifvars, vidvars, pipevars, uivars>>

NextApi ==
    \E r \in Reqs :
        \/ Reject(r) \/ AssignPaths(r) \/ Save(r) \/ SaveFails(r)
        \/ ProcessStart(r) \/ ProcessEnd(r) \/ Return(r) \/ Except(r)
        \/ Finally(r) \/ Send(r) \/ Background(r)

(* ---------------- frontend.py: the generator upload_and_process -------- *)
(* the file argument: None, or a path with the extension of its basename;  *)
(* readable says whether shutil.copy can read it                           *)
NoFile == [present |-> FALSE, ext |-> "", readable |-> FALSE]
Extensions == {"", ".gif", ".png", ".mp4", ".txt"}
FilePaths ==
    {NoFile} \cup [present : {TRUE}, ext : Extensions, readable : BOOLEAN]

(* mimetypes.guess_type, by the extension                                  *)
GuessType(ext) ==
    IF ext = ".gif" THEN <<"image", "gif">>
    ELSE IF ext = ".png" THEN <<"image", "png">>
    ELSE IF ext = ".mp4" THEN <<"video", "mp4">>
    ELSE IF ext = ".txt" THEN <<"text", "plain">>
    ELSE NoContentType

(* lines 15-26: get_file_type                                              *)
GetFileType(ext) ==
    IF StartsWith(GuessType(ext), "image") THEN "image"
    ELSE IF StartsWith(GuessType(ext), "video") THEN "video"
    ELSE "none"

(* the four gr.update of one yield                                         *)
Update(value, visible, img, vid, download) ==
    [value |-> value, visible |-> visible, image |-> img, video |-> vid,
     download |-> download]

InitUi ==
    /\ upc = "called"
    /\ file_path \in FilePaths
    /\ ui_pixel_size \in 1 .. MaxPixelSize
    /\ ui_upscale \in 1 .. MaxUpscale
    /\ input_exists = FALSE
    /\ input_created = FALSE
    /\ output_exists = FALSE
    /\ copies = 0
    /\ removes = 0
    /\ yields = <<>>
    /\ ui_caught = ""
    /\ ui_escaped = <<>>

(* lines 43-44: no file, gr.Error before the first yield                   *)
UiNoFile ==
    /\ upc = "called"
    /\ file_path = NoFile
    /\ ui_escaped' = Append(ui_escaped, "gr.Error: Please upload a file first!")
    /\ upc' = "raised"
    /\ UNCHANGED <<file_path, ui_pixel_size, ui_upscale, input_exists, input_created,
                   output_exists, copies, removes, yields, ui_caught>>
    /\ UNCHANGED <<imgvars, gifvars, vidvars, pipevars, apivars>>

(* line 47: the first yield                                                *)
UiFirstYield ==
    /\ upc = "called"
    /\ file_path # NoFile
    /\ yields' = Append(yields, Update(<<"Processing...">>, TRUE, FALSE, FALSE, FALSE))
    /\ upc' = "copy"
    /\ UNCHANGED <<file_path, ui_pixel_size, ui_upscale, input_exists, input_created,
                   output_exists, copies, removes, ui_caught, ui_escaped>>
    /\ UNCHANGED <<imgvars, gifvars, vidvars, pipevars, apivars>>

(* lines 52-60: the paths, then shutil.copy(file_path, input_path)         *)
UiCopy ==
    /\ upc = "copy"
    /\ file_path.readable
    /\ copies' = copies + 1
    /\ input_exists' = TRUE
    /\ input_created' = TRUE
    /\ upc' = "dispatch"
    /\ UNCHANGED <<file_path, ui_pixel_size, ui_upscale, output_exists, removes, yields,
                   ui_caught, ui_escaped>>
    /\ UNCHANGED <<imgvars, gifvars, vidvars, pipevars, apivars>>

(* line 60: shutil.copy raises: before it created input_path when the      *)
(* source cannot be read, after it when the write fails                    *)
UiCopyFails ==
    /\ upc = "copy"
    /\ copies' = copies + 1
    /\ IF file_path.readable
       THEN input_exists' = TRUE /\ input_created' = TRUE
       ELSE UNCHANGED <<input_exists, input_created>>
    /\ ui_caught' = "CopyError"
    /\ upc' = "except"
    /\ UNCHANGED <<file_path, ui_pixel_size, ui_upscale, output_exists, removes, yields,
                   ui_escaped>>
    /\ UNCHANGED <<imgvars, gifvars, vidvars, pipevars, apivars>>

(* lines 63-69: a supported type, the pipeline returns                     *)
UiProcess ==
    /\ upc = "dispatch"
    /\ GetFileType(file_path.ext) # "none"
    /\ \E wrote \in BOOLEAN :
          /\ (~wrote) => GuessType(file_path.ext) # <<"image", "gif">>
          /\ output_exists' = wrote
    /\ upc' = "yield"
    /\ UNCHANGED <<file_path, ui_pixel_size, ui_upscale, input_exists, input_created,
                   copies, removes, yields, ui_caught, ui_escaped>>
    /\ UNCHANGED <<imgvars, gifvars, vidvars, pipevars, apivars>>

(* lines 63-71: the pipeline raises, or the type is not supported and line *)
(* 71 raises gr.Error                                                      *)
UiProcessFails ==
    /\ upc = "dispatch"
    /\ IF GetFileType(file_path.ext) = "none"
       THEN ui_caught' = "Unsupported file type" /\ UNCHANGED output_exists
       ELSE ui_caught' = "ProcessingError" /\ output_exists' \in BOOLEAN
    /\ upc' = "except"
    /\ UNCHANGED <<file_path, ui_pixel_size, ui_upscale, input_exists, input_created,
                   copies, removes, yields, ui_escaped>>
    /\ UNCHANGED <<imgvars, gifvars, vidvars, pipevars, apivars>>

(* lines 73-85: the second yield of a run that did not raise               *)
UiYieldDone ==
    /\ upc = "yield"
    /\ yields' = Append(yields,
          Update(<<"Done!">>, FALSE, GetFileType(file_path.ext) = "image",
                 GetFileType(file_path.ext) = "video", TRUE))
    /\ upc' = "finally"
    /\ UNCHANGED <<file_path, ui_pixel_size, ui_upscale, input_exists, input_created,
                   output_exists, copies, removes, ui_caught, ui_escaped>>
    /\ UNCHANGED <<imgvars, gifvars, vidvars, pipevars, apivars>>

(* lines 87-88: except Exception, the second yield of a run that raised    *)
UiYieldError ==
    /\ upc = "except"
    /\ yields' = Append(yields, Update(<<"Error: ", ui_caught>>, TRUE, FALSE, FALSE, FALSE))
    /\ upc' = "finally"
    /\ UNCHANGED <<file_path, ui_pixel_size, ui_upscale, input_exists, input_created,
                   output_exists, copies, removes, ui_caught, ui_escaped>>
    /\ UNCHANGED <<imgvars, gifvars, vidvars, pipevars, apivars>>

(* variant of UiFinally that leaves the copied input in place              *)
UiFinallyKeepsInput ==
    /\ upc = "finally"
    /\ upc' = "exhausted"
    /\ UNCHANGED <<file_path, ui_pixel_size, ui_upscale, input_exists, input_created,
                   output_exists, copies, removes, yields, ui_caught, ui_escaped>>
    /\ UNCHANGED <<imgvars, gifvars, vidvars, pipevars, apivars>>

(* lines 89-92: finally, os.remove(input_path) if it exists                *)
UiFinally ==
    /\ upc = "finally"
    /\ IF input_exists
       THEN removes' = removes + 1 /\ input_exists' = FALSE
       ELSE UNCHANGED <<removes, input_exists>>
    /\ upc' = "exhausted"
    /\ UNCHANGED <<file_path, ui_pixel_size, ui_upscale, input_created, output_exists,
                   copies, yields, ui_caught, ui_escaped>>
    /\ UNCHANGED <<imgvars, gifvars, vidvars, pipevars, apivars>>

NextUi ==
    \/ UiNoFile \/ UiFirstYield \/ UiCopy \/ UiCopyFails \/ UiProcess
    \/ UiProcessFails \/ UiYieldDone \/ UiYieldError \/ UiFinally

(* ---------------------------- specifications --------------------------- *)
vars == <<imgvars, gifvars, vidvars, hostvars>>

(* a pipeline that is not running                                          *)
IdleImage ==
    /\ pc = "idle" /\ image = None /\ pixel_size = 1 /\ n_colors = 1
    /\ upscale_factor = 1 /\ small_bgr = None /\ centers = <<>> /\ labels = <<>>
    /\ iter = 0 /\ quantized_small_bgr = None /\ result = None

IdleGif ==
    /\ gpc = "idle" /\ gif = <<>> /\ gif_pixel_size = 1 /\ gif_upscale = 1
    /\ gi = 0 /\ frames = <<>> /\ durations = <<>> /\ gif_failed = ""
    /\ outfile = Absent

IdleVideo ==
    /\ vpc = "idle" /\ source = <<>> /\ video_pixel_size = 1 /\ video_upscale = 1
    /\ probed = <<>> /\ process = NoProcess /\ cap = NoCap /\ frame = NoFrame
    /\ decoded = <<>> /\ written = <<>> /\ escaped = <<>>

IdlePipe ==
    /\ kpc = "idle" /\ k_frames = 0 /\ stdin_pipe = 0 /\ stdin_open = FALSE
    /\ stderr_pipe = 0 /\ log_rate = 0 /\ enc = NoEncoder

IdleApi ==
    /\ requests = <<>> /\ hpc = <<>> /\ unique_id = <<>> /\ files = {}
    /\ created = {} /\ foreign = {} /\ caught = <<>> /\ response = <<>>

IdleUi ==
    /\ upc = "idle" /\ file_path = NoFile /\ ui_pixel_size = 1 /\ ui_upscale = 1
    /\ input_exists = FALSE /\ input_created = FALSE /\ output_exists = FALSE
    /\ copies = 0 /\ removes = 0 /\ yields = <<>> /\ ui_caught = ""
    /\ ui_escaped = <<>>

IdleHost == IdlePipe /\ IdleApi /\ IdleUi

NextImage == Downscale \/ KMeansInit \/ KMeansIterate \/ Quantize \/ Upscale

(* one call of pixelate_image                                              *)
Init == InitImage /\ IdleGif /\ IdleVideo /\ IdleHost
Next == NextImage
Spec == Init /\ [][Next]_vars

(* one call of pixelate_gif_file                                           *)
InitGifFile == InitGif /\ IdleImage /\ IdleVideo /\ IdleHost
SpecGif == InitGifFile /\ [][NextGif]_vars

(* the producer part of pixelate_video_file beside the encoder process:    *)
(* both are scheduled fairly, the encoder's failure is not                 *)
InitPipeFile == InitPipe /\ IdleImage /\ IdleGif /\ IdleVideo /\ IdleApi /\ IdleUi
SpecPipe ==
    /\ InitPipeFile /\ [][NextPipe]_vars
    /\ WF_vars(ProducerStep) /\ WF_vars(EncoderStep)

(* MaxRequests concurrent requests to /upload/ and /api/pixelate           *)
InitApiHost == InitApi /\ IdleImage /\ IdleGif /\ IdleVideo /\ IdlePipe /\ IdleUi
SpecApi == InitApiHost /\ [][NextApi]_vars

(* one call of upload_and_process, consumed to its end                     *)
InitUiHost == InitUi /\ IdleImage /\ IdleGif /\ IdleVideo /\ IdlePipe /\ IdleApi
SpecUi == InitUiHost /\ [][NextUi]_vars

(* one call of pixelate_video_file                                         *)
InitVideoFile == InitVideo /\ IdleImage /\ IdleGif /\ IdleHost
SpecVideo == InitVideoFile /\ [][NextVideo]_vars

(* ============================ pixelate_image =========================== *)
Done == pc = "done"
ZeroArea == Height = 0 \/ Width = 0
ColorOf(px) == SubSeq(px, 1, 3)
ColorsOf(buf) == {ColorOf(buf.data[p]) : p \in DOMAIN buf.data}
NumSmallPixels == SmallHeight * SmallWidth

(* C1: for a buffer of height h > 0 and width w > 0 the returned buffer    *)
(* has exactly h * upscale_factor rows and w * upscale_factor columns,     *)
(* also when h or w is below pixel_size or no multiple of it.              *)
C1_OutputDims ==
    (Done /\ ~ZeroArea) =>
        /\ result.shape[1] = Height * upscale_factor
        /\ result.shape[2] = Width * upscale_factor
        /\ DOMAIN result.data = Grid(Height * upscale_factor, Width * upscale_factor)

C1_Witness ==
    /\ Done
    /\ Height > 0 /\ Height < pixel_size
    /\ Width % pixel_size # 0 /\ Width > pixel_size
    /\ upscale_factor > 1
    /\ DOMAIN result.data = Grid(Height * upscale_factor, Width * upscale_factor)

(* C2: with upscale_factor = 1, every pixel_size x pixel_size block        *)
(* aligned on multiples of pixel_size and lying fully inside the output    *)
(* has a single colour, for all h and w.                                   *)
C2_AlignedBlocksUniform ==
    (Done /\ ~ZeroArea /\ upscale_factor = 1) =>
        \A i \in 0 .. (Height \div pixel_size) - 1, j \in 0 .. (Width \div pixel_size) - 1 :
            \A y1, y2 \in i * pixel_size .. (i + 1) * pixel_size - 1 :
                \A x1, x2 \in j * pixel_size .. (j + 1) * pixel_size - 1 :
                    ColorOf(result.data[<<y1, x1>>]) = ColorOf(result.data[<<y2, x2>>])

C4_AlphaIff ==
    Done =>
        /\ result.shape[3] = 4 <=> HasAlpha
        /\ \A p \in DOMAIN result.data : Len(result.data[p]) = image.shape[3]
        /\ (HasAlpha /\ ~ZeroArea) =>
              LET small_alpha == ResizeLinear(AlphaPart(image), Height, Width,
                                              SmallHeight, SmallWidth)
              IN  \A p \in DOMAIN result.data :
                      result.data[p][4] =
                          small_alpha[<<(p[1] * SmallHeight) \div result.shape[1],
                                        (p[2] * SmallWidth) \div result.shape[2]>>]

C4_Witness ==
    /\ Done /\ HasAlpha /\ ~ZeroArea
    /\ n_colors = 1
    /\ result.shape[3] = 4
    /\ Cardinality({result.data[p][4] : p \in DOMAIN result.data}) > 1

(* C5: no value of n_colors makes pixelate_image fail: the cluster count   *)
(* is min(n_colors, small_h * small_w), and for n_colors <= 0 clustering   *)
(* is skipped and the downsampled colours are upscaled unchanged.          *)
C5_NColorsNeverFails ==
    /\ pc # "raised"
    /\ pc \in {"kmeans_iter", "quantize"} =>
          /\ Len(centers) = Min(n_colors, NumSmallPixels)
          /\ Len(centers) >= 1 /\ Len(centers) <= NumSmallPixels
    /\ (pc \in {"upscale", "done"} /\ ~ZeroArea /\ n_colors <= 0) =>
          /\ iter = 0
          /\ quantized_small_bgr = small_bgr
    /\ (Done /\ ~ZeroArea /\ n_colors <= 0) =>
          \A p \in DOMAIN result.data :
              ColorOf(result.data[p]) =
                  small_bgr.data[<<(p[1] * SmallHeight) \div result.shape[1],
                                   (p[2] * SmallWidth) \div result.shape[2]>>]

C5_Witness ==
    /\ Done /\ ~ZeroArea
    /\ n_colors > NumSmallPixels
    /\ NumSmallPixels >= 2
    /\ Len(centers) = NumSmallPixels

(* C6 as stated: for a zero-area or a 1 x 1 buffer the returned buffer's   *)
(* height and width are the input's, each times upscale_factor.            *)
C6_ZeroAreaScaled ==
    (Done /\ (ZeroArea \/ (Height = 1 /\ Width = 1))) =>
        /\ result.shape[1] = Height * upscale_factor
        /\ result.shape[2] = Width * upscale_factor

(* C6 amended: pixelate_image returns without error; a zero-area buffer is *)
(* returned unchanged, so it keeps the input's height and width, and a     *)
(* 1 x 1 buffer yields upscale_factor x upscale_factor.                    *)
C6_ZeroAreaUnchanged ==
    /\ pc # "raised"
    /\ (Done /\ ZeroArea) => result = image
    /\ (Done /\ Height = 1 /\ Width = 1) =>
          /\ result.shape[1] = upscale_factor
          /\ result.shape[2] = upscale_factor
          /\ DOMAIN result.data = Grid(upscale_factor, upscale_factor)

C6_Witness ==
    /\ Done
    /\ Height = 0 /\ Width > 0 /\ HasAlpha
    /\ upscale_factor > 1 /\ pixel_size > 1
    /\ result.shape[2] = Width

(* ============================ pixelate_gif_file ======================== *)
(* C7: for an animated source of k >= 2 frames the written sequence has    *)
(* exactly k frames in the source's order, the i-th with the i-th source   *)
(* frame's duration (100 ms when it declares none), loop count 0 and       *)
(* disposal 2.                                                             *)
C7_FramesAndTiming ==
    (gpc = "returned" /\ NFrames >= 2) =>
        /\ outfile.state = "written"
        /\ outfile.save_all
        /\ Len(outfile.frames) = NFrames
        /\ \A i \in 1 .. NFrames :
              /\ outfile.frames[i].of = gif[i].pic
              /\ outfile.frames[i].scale = gif_upscale
        /\ Len(outfile.duration) = NFrames
        /\ \A i \in 1 .. NFrames :
              outfile.duration[i] =
                  IF gif[i].duration = NoDuration THEN 100 ELSE gif[i].duration
        /\ outfile.loop = 0
        /\ outfile.disposal = 2

(* C8: when decoding or quantizing a frame fails the call raises and       *)
(* nothing has been written at the output path; the output is written only *)
(* once every frame has been processed.                                    *)
C8_NoOutputOnFrameFailure ==
    /\ (gpc = "raised" /\ gif_failed \in {"open", "decode", "quantize"}) =>
          outfile = Absent
    /\ gif_failed \in {"decode", "quantize"} => gpc = "raised"
    /\ outfile # Absent =>
          /\ gpc \in {"returned", "raised"}
          /\ IsAnimated => gi = NFrames /\ Len(frames) = NFrames

C8_Witness ==
    /\ gpc = "raised"
    /\ gif_failed = "quantize"
    /\ gi >= 1 /\ gi < NFrames
    /\ Len(frames) = gi
    /\ outfile = Absent

(* ============================ pixelate_video_file ====================== *)
(* C9: the writes to the encoder's stdin are the decoded frames in decode  *)
(* order, each quantized: none skipped, repeated or reordered, and a frame *)
(* is decoded only after the one before it has been written.               *)
C9_WritesInDecodeOrder ==
    /\ Len(written) <= Len(decoded)
    /\ Len(decoded) <= Len(written) + 1
    /\ \A i \in 1 .. Len(decoded) : decoded[i] = i
    /\ \A i \in 1 .. Len(written) :
          written[i].of = decoded[i] /\ written[i].state = "pixelated"
    /\ vpc \in {"read", "close", "wait", "release", "returned"} =>
          Len(written) = Len(decoded)
    /\ (vpc = "returned" /\ cap.opened) => Len(written) = source.n_frames

C9_Witness ==
    /\ vpc = "returned"
    /\ Len(decoded) >= 2
    /\ Len(written) = Len(decoded)
    /\ written[2].of = 2

(* C10: whichever step fails, the caller observes exactly one exception,   *)
(* a RuntimeError 'Failed during video processing: ...' that carries the   *)
(* cause; no other exception type leaves the function.                     *)
C10_SingleVideoError ==
    /\ Len(escaped) <= 1
    /\ vpc = "raised" <=> Len(escaped) = 1
    /\ \A i \in 1 .. Len(escaped) :
          /\ escaped[i].type = "RuntimeError"
          /\ escaped[i].message[1] = "Failed during video processing: "
          /\ escaped[i].message[2] = escaped[i].context
          /\ escaped[i].context \in
                {ProbeError, NoVideoStream, BadFrameRate, LaunchError, QuantizeError,
                 PipeError}

C10_Witness ==
    /\ vpc = "raised"
    /\ Len(escaped) = 1
    /\ escaped[1].type = "RuntimeError"
    /\ escaped[1].context = PipeError
    /\ Len(written) >= 1

(* C11: on every exit of pixelate_video_file, by return or by raise, a     *)
(* launched encoder has had its stdin closed and has been waited for, and  *)
(* a created decoder has been released.                                    *)
C11_ResourcesReleased ==
    vpc \in {"returned", "raised"} =>
        /\ process.launched => (process.stdin = "closed" /\ process.waited)
        /\ cap.created => cap.released

(* C12: the encoder gets an audio input taken from the source exactly when *)
(* the probe reports an audio stream, so the output has an audio stream    *)
(* exactly when the source has one.                                        *)
C12_AudioIffProbed ==
    process.launched =>
        /\ process.config.audio_input = "source" <=> source.has_audio
        /\ process.config.acodec = (IF source.has_audio THEN "aac" ELSE "copy")
        /\ "video" \in OutputStreams(process.config)
        /\ "audio" \in OutputStreams(process.config) <=> source.has_audio

C12_Witness ==
    /\ vpc = "returned"
    /\ source.has_audio
    /\ process.status = 0
    /\ process.config.audio_input = "source"
    /\ OutputStreams(process.config) = {"video", "audio"}

(* C13: the encoder is configured for bgr24 frames of the probed width and *)
(* height times upscale_factor, and every write to its stdin carries       *)
(* exactly that width times that height times 3 bytes.                     *)
C13_FrameSizeMatches ==
    process.launched =>
        /\ process.config.format = "rawvideo"
        /\ process.config.pix_fmt = "bgr24"
        /\ process.config.s = <<source.width * video_upscale,
                                source.height * video_upscale>>
        /\ \A i \in 1 .. Len(written) :
              written[i].nbytes = process.config.s[1] * process.config.s[2] * 3

C13_Witness ==
    /\ vpc = "returned"
    /\ video_upscale > 1
    /\ source.width # source.height
    /\ Len(written) >= 2
    /\ written[2].nbytes = process.config.s[1] * process.config.s[2] * 3

(* C14: an invocation that hits a processing failure never returns         *)
(* normally: a decoder that cannot open the source or yields no frame, and *)
(* an encoder that exits with a failure status, end in a raised error.     *)
C14_FailureNeverReturns ==
    vpc = "returned" =>
        /\ cap.opened
        /\ source.n_frames > 0
        /\ process.status = 0

(* C15: on the path that returns, every write happens while stdin is open, *)
(* stdin is closed only after the last decoded frame was written, the      *)
(* wait happens only after stdin was closed, and the decoder is released   *)
(* only after the wait.                                                    *)
C15_ShutdownOrder ==
    [][/\ written' # written => (process.stdin = "open" /\ process'.stdin = "open")
       /\ (process.stdin = "open" /\ process'.stdin = "closed") =>
              (Len(written) = Len(decoded) /\ ~process.waited /\ ~cap.released)
       /\ (~process.waited /\ process'.waited) =>
              (process.stdin = "closed" /\ ~cap.released)
       /\ (~cap.released /\ cap'.released) => process.waited
       /\ process.stdin = "closed" => process'.stdin = "closed"]_vars

C15_Witness ==
    /\ vpc = "returned"
    /\ Len(written) >= 2
    /\ process.stdin = "closed"
    /\ process.waited
    /\ cap.released

(* C16: the producer and the encoder never deadlock: as long as the call   *)
(* has neither returned nor raised, the producer or the encoder can take a *)
(* step, with the stdin pipe and the unread stderr pipe both bounded.      *)
C16_NeverDeadlock ==
    kpc \in {"write", "wait", "release"} => ENABLED (ProducerStep \/ EncoderStep)

(* C16, as progress: under fair scheduling every call returns or raises    *)
C16_EventuallyExits == <>(kpc \in {"returned", "raised"})

(* ============================ main.py ================================== *)
Upload(r) == requests[r].endpoint = "/upload/"
PassedCheck(r) == ~Invalid(requests[r]) /\ Supported(requests[r])

(* C17: concurrent requests each use the paths of their own fresh UUID: no *)
(* request reads, overwrites or deletes a file another request created,    *)
(* also when two requests upload the same filename.                        *)
C17_OwnFilesOnly ==
    /\ foreign = {}
    /\ \A f \in files : f.path \in {InputPath(f.by), OutputPath(f.by)}
    /\ \A r1, r2 \in Reqs :
          (r1 # r2 /\ unique_id[r1] # 0 /\ unique_id[r2] # 0) =>
              {InputPath(r1), OutputPath(r1)} \cap {InputPath(r2), OutputPath(r2)} = {}

C17_Witness ==
    \E r1, r2 \in Reqs :
        /\ r1 # r2
        /\ requests[r1].filename = requests[r2].filename
        /\ requests[r1].endpoint # requests[r2].endpoint
        /\ hpc[r1] = "processing" /\ hpc[r2] = "finally"
        /\ Exists(InputPath(r1)) /\ Exists(InputPath(r2))
        /\ Exists(OutputPath(r2))

(* C18: once a POST /upload/ that passed the content-type check is         *)
(* answered, the saved upload is gone; if processing raised, the output is *)
(* gone too and the answer is HTTP 500 'Error during processing: <cause>'; *)
(* if it succeeded, the output exists at the returned path; an unsupported *)
(* content type is answered 400 with no file created.                      *)
C18_UploadCleanup ==
    \A r \in Reqs :
        (Upload(r) /\ hpc[r] = "done") =>
            IF PassedCheck(r)
            THEN /\ ~Exists(InputPath(r))
                 /\ caught[r] # "" =>
                       /\ ~Exists(OutputPath(r))
                       /\ response[r].status = 500
                       /\ response[r].detail = <<"Error during processing: ", caught[r]>>
                 /\ caught[r] = "" =>
                       /\ response[r].status = 200
                       /\ response[r].path = OutputPath(r)
                       /\ Exists(OutputPath(r))
            ELSE /\ response[r].status = 400
                 /\ {c \in created : c.by = r} = {}

(* ============================ frontend.py ============================== *)
(* what every consumed run with a file yields, and what a run without a    *)
(* file does                                                               *)
C19_Updates ==
    /\ upc = "raised" =>
          /\ file_path = NoFile
          /\ yields = <<>> /\ copies = 0 /\ removes = 0
          /\ Len(ui_escaped) = 1
    /\ file_path = NoFile => upc \in {"called", "raised"}
    /\ file_path # NoFile => ui_escaped = <<>>
    /\ removes > 0 => Len(yields) = 2
    /\ upc = "exhausted" =>
          /\ Len(yields) = 2
          /\ yields[1] = Update(<<"Processing...">>, TRUE, FALSE, FALSE, FALSE)
          /\ IF ui_caught = ""
             THEN /\ yields[2].value = <<"Done!">>
                  /\ yields[2].download
             ELSE yields[2] = Update(<<"Error: ", ui_caught>>, TRUE, FALSE, FALSE, FALSE)
          /\ ~input_exists

(* C19: called with a file and consumed to the end, the generator yields   *)
(* exactly two updates, 'Processing...' with the results hidden, then      *)
(* 'Done!' or a visible 'Error: <cause>'; in both cases the copied input   *)
(* is removed exactly once, after the second yield, and nothing escapes;   *)
(* called with no file it raises before any yield, copy or removal.        *)
C19_TwoUpdatesOneRemoval ==
    /\ C19_Updates
    /\ upc = "exhausted" => removes = 1

(* C19, amended: the copied input is removed exactly once when the copy    *)
(* had created it, and nothing is removed when the copy failed before      *)
(* creating it.                                                            *)
C19_TwoUpdatesCopyRemoved ==
    /\ C19_Updates
    /\ upc = "exhausted" => removes = (IF input_created THEN 1 ELSE 0)
    /\ (upc = "exhausted" /\ ui_caught # "CopyError") => removes = 1

C19_Witness ==
    /\ upc = "exhausted"
    /\ ui_caught = "ProcessingError"
    /\ Len(yields) = 2
    /\ yields[2].value = <<"Error: ", "ProcessingError">>
    /\ input_created /\ ~input_exists
    /\ removes = 1

====
